---- MODULE Spec2Model ----
(***************************************************************************)
(* Model of teleop/main.py: the SO101 leader-arm command-line utility with *)
(* its three modes (calibrate, test, websocket).                           *)
(*                                                                         *)
(* Time is discrete: one unit is 1/UnitsPerSecond seconds, and only frame  *)
(* rates whose period 1/fps is a whole number of units (and fps = 0, which *)
(* the argument parser accepts) are drawn.  Strings that the program edits *)
(* (motor names) are sequences of one-character strings.  A Python dict is *)
(* the sequence of its (key, value) items in insertion order.  The line    *)
(* written to the terminal is not modelled; the clock readings that go     *)
(* into it are positive, a device read taking far longer than the clock's  *)
(* resolution.  A KeyboardInterrupt is raised where the program is; under  *)
(* asyncio.run a first Ctrl+C that is delivered as a cancellation at the   *)
(* next await reaches the same cleanup from that await.                    *)
(***************************************************************************)
EXTENDS Integers, Sequences, FiniteSets, TLC

(* ------------------------------ bounds -------------------------------- *)

\* Websocket connections that may ever be accepted during one run.
NumClients == 2

\* Clock resolution of the model: time units per second.
UnitsPerSecond == 2

\* The clock stops advancing at this reading (bounds the run).
MaxNow == 4

\* Joint angles read from the device range over 0..MaxAngle.
MaxAngle == 1

\* KeyboardInterrupts delivered during one run.
MaxInterrupts == 1

(* ----------------------------- constants ------------------------------ *)

Clients == 1 .. NumClients

Angles == 0 .. MaxAngle

Modes == {"calibrate", "test", "websocket"}

\* --fps is any int; those whose period is a whole number of units, and 0.
FpsChoices == {0} \cup {f \in 1 .. UnitsPerSecond : UnitsPerSecond % f = 0}

\* 1 / fps, in time units (fps > 0).
Period(f) == UnitsPerSecond \div f

Max(a, b) == IF a >= b THEN a ELSE b

\* The ".pos" in motor.replace('.pos', '').
DotPos == <<".", "p", "o", "s">>

\* Keys of SO101Leader.get_action(): f"{motor}.pos" for the arm's six motors,
\* the names whose prefixes the display shortens (shoulder_, elbow_, wrist_).
MotorNames ==
  << <<"s","h","o","u","l","d","e","r","_","p","a","n">> \o DotPos,
     <<"s","h","o","u","l","d","e","r","_","l","i","f","t">> \o DotPos,
     <<"e","l","b","o","w","_","f","l","e","x">> \o DotPos,
     <<"w","r","i","s","t","_","f","l","e","x">> \o DotPos,
     <<"w","r","i","s","t","_","r","o","l","l">> \o DotPos,
     <<"g","r","i","p","p","e","r">> \o DotPos >>

Motors == DOMAIN MotorNames

(* --------------------------- pure functions --------------------------- *)

\* Python's str.replace(old, new) for a non-empty old: left to right, every
\* non-overlapping occurrence.
RECURSIVE Replace(_, _, _)
Replace(s, old, new) ==
  IF Len(s) < Len(old) THEN s
  ELSE IF SubSeq(s, 1, Len(old)) = old
       THEN new \o Replace(SubSeq(s, Len(old) + 1, Len(s)), old, new)
       ELSE <<Head(s)>> \o Replace(Tail(s), old, new)

\* The key left as the device names it.
StripPosKept(motor) == motor

\* motor.replace('.pos', '')
StripPos(motor) == Replace(motor, DotPos, <<>>)

\* float(value): the angle as a float, its numeric value unchanged.
Float(value) == value

\* d[k] = v on a dict given as its item sequence: an existing key keeps its
\* place and takes the new value, a new key is appended.
DictSet(d, k, v) ==
  IF \E i \in DOMAIN d : d[i][1] = k
  THEN [i \in DOMAIN d |-> IF d[i][1] = k THEN <<k, v>> ELSE d[i]]
  ELSE Append(d, <<k, v>>)

\* {motor.replace('.pos', ''): float(value) for motor, value in action.items()}
RECURSIVE DictComp(_, _)
DictComp(items, acc) ==
  IF items = <<>> THEN acc
  ELSE DictComp(Tail(items),
                DictSet(acc, StripPos(Head(items)[1]), Float(Head(items)[2])))

\* action_data: the dict literal with the keys "timestamp" and "actions".
ActionData(act, ts) ==
  << <<"timestamp", ts>>, <<"actions", DictComp(act, <<>>)>> >>

\* json.dumps(action_data): the JSON text as the sequence of its members, the
\* nested dict serialised member by member.
Dumps(data) ==
  [i \in DOMAIN data |->
     IF data[i][1] = "actions"
     THEN <<data[i][1], [j \in DOMAIN data[i][2] |-> data[i][2][j]]>>
     ELSE data[i]]

\* The device's action for one reading of the joint angles.
DeviceAction(angle) == [i \in Motors |-> <<MotorNames[i], angle[i]>>]

\* The arm poses drawn in the process model: all joints at rest, or all at
\* full deflection.
Poses == {[i \in Motors |-> a] : a \in {0, MaxAngle}}

\* The arm poses drawn in the formatting model: every combination of angles.
AllPoses == [Motors -> Angles]

NoAction == <<>>
NoMessage == <<>>

(* ------------------------------- state -------------------------------- *)

VARIABLES
  mode,              \* args.mode
  fps,               \* args.fps
  pc,                \* position of the main program
  exc,               \* exception being propagated: "none", "kbd", "error"
  interrupts,        \* KeyboardInterrupts delivered so far
  intrOpen,          \* a KeyboardInterrupt was delivered while the device was open
  devState,          \* the leader device: "new", "open", "closed"
  connectCalls,      \* calls of connect()
  disconnectCalls,   \* calls of disconnect()
  misuse,            \* calibrate() or get_action() was called on a device not open
  lpc,               \* position of the polling loop
  tick,              \* ordinal of the current iteration of the polling loop
  reads,             \* calls of get_action() in the current iteration
  now,               \* the clock (time.perf_counter(), time.time())
  loop_start,        \* loop_start of the current iteration
  gap,               \* at the start of an iteration: time since the previous
                     \* loop_start (-1: none)
  action,            \* action of the current iteration
  dt_s,              \* dt_s of the current iteration
  sleep_time,        \* sleep_time of the current iteration
  message,           \* message of the current iteration
  gathered,          \* the list of sends handed to asyncio.gather this iteration
  snapshot,          \* connected_clients as it was when that list was built
  sends,             \* sends started and not yet completed or failed
  failed,            \* connections whose send of this iteration raised
  lastDelivered,     \* per connection: iteration of the last message delivered
  connected_clients, \* the set connected_clients
  conn,              \* per connection: "none", "handling", "closed", "done"
  adds,              \* per connection: calls of connected_clients.add
  removes,           \* per connection: calls of connected_clients.remove
  removeErr          \* connected_clients.remove raised KeyError

progVars == <<mode, fps, pc, exc, interrupts, intrOpen>>
devVars == <<devState, connectCalls, disconnectCalls, misuse>>
loopVars == <<lpc, tick, reads, now, loop_start, gap, action, dt_s, sleep_time>>
sendVars == <<message, gathered, snapshot, sends, failed, lastDelivered>>
clientVars == <<connected_clients, conn, adds, removes, removeErr>>

vars == <<progVars, devVars, loopVars, sendVars, clientVars>>

\* The polling loop is not running: its locals, the clock it reads and the
\* bookkeeping of its sends hold nothing.
LoopOff(l, ti, r, n, ls, g, a, d, st, m, ga, sn, se, f, ld) ==
  /\ l = "off"
  /\ ti = 0
  /\ r = 0
  /\ n = 0
  /\ ls = 0
  /\ g = -1
  /\ a = NoAction
  /\ d = 0
  /\ st = 0
  /\ m = NoMessage
  /\ ga = <<>>
  /\ sn = {}
  /\ se = {}
  /\ f = {}
  /\ ld = [c \in Clients |-> 0]

Init ==
  /\ mode \in Modes
  /\ fps \in FpsChoices
  /\ pc = "start"
  /\ exc = "none"
  /\ interrupts = 0
  /\ intrOpen = FALSE
  /\ devState = "new"
  /\ connectCalls = 0
  /\ disconnectCalls = 0
  /\ misuse = FALSE
  /\ LoopOff(lpc, tick, reads, now, loop_start, gap, action, dt_s, sleep_time,
             message, gathered, snapshot, sends, failed, lastDelivered)
  /\ connected_clients = {}
  /\ conn = [c \in Clients |-> "none"]
  /\ adds = [c \in Clients |-> 0]
  /\ removes = [c \in Clients |-> 0]
  /\ removeErr = FALSE

(* ------------------------ helpers of the actions ----------------------- *)

\* The remaining time of the frame, without the clamp at zero.
SleepTimeUnclamped(f, dt) == Period(f) - dt

\* sleep_time = max(0, 1 / fps - dt_s)
SleepTime(f, dt) == Max(0, Period(f) - dt)

\* A send to the first client of the set only.
SendListFirstOnly(S, m, n) ==
  IF S = {} THEN <<>>
  ELSE <<[to |-> CHOOSE x \in S : TRUE, msg |-> m, tick |-> n]>>

\* [client.send(message) for client in connected_clients]: one send per
\* member of the set, in the set's iteration order (n: the iteration the
\* sends belong to).
RECURSIVE SendList(_, _, _)
SendList(S, m, n) ==
  IF S = {} THEN <<>>
  ELSE LET c == CHOOSE x \in S : TRUE
       IN  <<[to |-> c, msg |-> m, tick |-> n]>> \o SendList(S \ {c}, m, n)

\* asyncio.gather(...) with return_exceptions left at its default.
ReturnExceptionsOmitted == FALSE

\* asyncio.gather(..., return_exceptions=True)
ReturnExceptions == TRUE

\* The sends started and not awaited.
GatherNotAwaited == TRUE

\* await asyncio.gather(...) returns once every send handed to it has
\* completed or raised.
GatherDone == \A i \in DOMAIN gathered : gathered[i] \notin sends

\* The same with one more await, inside the stretch that builds the sends.
SuspendedWhileBuilding == lpc \in {"polled", "gather", "sleep"}

\* The broadcast task is suspended at one of its two awaits (gather, sleep):
\* only then does the event loop run the connection handlers and the sends.
Suspended == lpc \in {"gather", "sleep"}

\* The set left as it is.
AfterRemoveKept(S, c) == S

\* connected_clients.add(websocket)
AfterAdd(S, c) == S \cup {c}

\* connected_clients.remove(websocket)
AfterRemove(S, c) == S \ {c}

\* leader.disconnect()
Disconnect ==
  /\ disconnectCalls' = disconnectCalls + 1
  /\ devState' = "closed"

\* The polling loop is left: its frame is dropped, pending sends are
\* cancelled.
ExitLoop ==
  LoopOff(lpc', tick', reads', now', loop_start', gap', action', dt_s',
          sleep_time', message', gathered', snapshot', sends', failed',
          lastDelivered')

\* An exception other than KeyboardInterrupt leaves the polling loop: in
\* test mode to the finally clause, in websocket mode out of asyncio.run.
Raise ==
  /\ exc' = "error"
  /\ pc' = IF mode = "test" THEN "finally" ELSE "shutdown"
  /\ ExitLoop

\* The start of an iteration: loop_start is read and get_action is called.
PollStep ==
  /\ lpc' = "polled"
  /\ tick' = tick + 1
  /\ loop_start' = now
  /\ gap' = IF tick = 0 THEN -1 ELSE now - loop_start
  /\ action' \in {DeviceAction(p) : p \in Poses}
  /\ reads' = reads + 1
  /\ misuse' = (misuse \/ devState # "open")
  /\ dt_s' = 0
  /\ sleep_time' = 0
  /\ UNCHANGED <<progVars, devState, connectCalls, disconnectCalls, now, message,
                 gathered, snapshot, sends, failed, lastDelivered, clientVars>>

\* dt_s, sleep_time and the start of the sleep; without a sleep the
\* iteration ends here. 1 / fps raises ZeroDivisionError for fps = 0.
TimingStep ==
  /\ IF fps = 0
     THEN Raise
     ELSE /\ dt_s' = now - loop_start
          /\ sleep_time' = SleepTime(fps, dt_s')
          /\ lpc' = IF sleep_time' > 0 THEN "sleep" ELSE "poll"
          /\ reads' = IF sleep_time' > 0 THEN reads ELSE 0
          /\ gap' = -1
          /\ message' = NoMessage
          /\ gathered' = <<>>
          /\ snapshot' = {}
          /\ UNCHANGED <<pc, exc, tick, now, loop_start, action, sends, failed,
                         lastDelivered>>
  /\ UNCHANGED <<mode, fps, interrupts, intrOpen, devVars, clientVars>>

\* The sleep returns, no earlier than asked, and the iteration ends.
WakeStep ==
  /\ now >= loop_start + dt_s + sleep_time
  /\ lpc' = "poll"
  /\ reads' = 0
  /\ UNCHANGED <<progVars, devVars, tick, now, loop_start, gap, action, dt_s,
                 sleep_time, sendVars, clientVars>>

(* ------------------------------ actions -------------------------------- *)

\* SO101Leader(config) and leader.connect(), the first device call of every
\* mode.
Connect ==
  /\ pc = "start"
  /\ devState' = "open"
  /\ connectCalls' = connectCalls + 1
  /\ pc' = "connected"
  /\ UNCHANGED <<mode, fps, exc, interrupts, intrOpen, disconnectCalls, misuse,
                 loopVars, sendVars, clientVars>>

\* calibrate mode: leader.calibrate()
Calibrate ==
  /\ mode = "calibrate"
  /\ pc = "connected"
  /\ misuse' = (misuse \/ devState # "open")
  /\ pc' = "calibrated"
  /\ UNCHANGED <<mode, fps, exc, interrupts, intrOpen, devState, connectCalls,
                 disconnectCalls, loopVars, sendVars, clientVars>>

\* calibrate mode: leader.disconnect(), and the program ends.
CalibrateDisconnect ==
  /\ mode = "calibrate"
  /\ pc = "calibrated"
  /\ Disconnect
  /\ pc' = "exited"
  /\ UNCHANGED <<mode, fps, exc, interrupts, intrOpen, connectCalls, misuse,
                 loopVars, sendVars, clientVars>>

\* test mode: the banner is printed and the try statement is entered.
EnterLoop ==
  /\ mode = "test"
  /\ pc = "connected"
  /\ pc' = "loop"
  /\ lpc' = "poll"
  /\ UNCHANGED <<mode, fps, exc, interrupts, intrOpen, devVars, tick, reads, now,
                 loop_start, gap, action, dt_s, sleep_time, sendVars, clientVars>>

\* websocket mode: the try statement is entered, asyncio.run(main()) starts
\* the server and main calls broadcast_actions().
EnterRun ==
  /\ mode = "websocket"
  /\ pc = "connected"
  /\ pc' = "run"
  /\ lpc' = "poll"
  /\ UNCHANGED <<mode, fps, exc, interrupts, intrOpen, devVars, tick, reads, now,
                 loop_start, gap, action, dt_s, sleep_time, sendVars, clientVars>>

\* The clock advances while the program waits: in get_action, in the sends,
\* in the sleep.
Tick ==
  /\ pc \in {"loop", "run"}
  /\ lpc \in {"polled", "gather", "sleep"}
  /\ now < MaxNow
  /\ now' = now + 1
  /\ UNCHANGED <<progVars, devVars, lpc, tick, reads, loop_start, gap, action,
                 dt_s, sleep_time, sendVars, clientVars>>

\* test mode: loop_start and leader.get_action().
TestPoll ==
  /\ pc = "loop"
  /\ lpc = "poll"
  /\ PollStep

\* test mode: the line is displayed, then dt_s and sleep_time.
TestTiming ==
  /\ pc = "loop"
  /\ lpc = "polled"
  /\ TimingStep

\* test mode: time.sleep(sleep_time) returns.
TestWake ==
  /\ pc = "loop"
  /\ lpc = "sleep"
  /\ WakeStep

\* websocket mode: loop_start and teleop_device.get_action().
WsPoll ==
  /\ pc = "run"
  /\ lpc = "poll"
  /\ PollStep

\* websocket mode: action_data is built; with clients connected the message
\* is serialised and the sends are handed to asyncio.gather, without clients
\* the iteration goes on to its timing.
WsBroadcast ==
  /\ pc = "run"
  /\ lpc = "polled"
  /\ IF connected_clients # {}
     THEN /\ message' = Dumps(ActionData(action, now))
          /\ gathered' = SendList(connected_clients, message', tick)
          /\ snapshot' = connected_clients
          /\ sends' = sends \cup {gathered'[i] : i \in DOMAIN gathered'}
          /\ failed' = {}
          /\ lpc' = "gather"
          /\ gap' = -1
          /\ UNCHANGED <<progVars, devVars, tick, reads, now, loop_start, action,
                         dt_s, sleep_time, lastDelivered, clientVars>>
     ELSE TimingStep

\* websocket mode: the gather returns, then dt_s and sleep_time.
WsGatherDone ==
  /\ pc = "run"
  /\ lpc = "gather"
  /\ GatherDone
  /\ TimingStep

\* websocket mode: asyncio.sleep(sleep_time) returns, and the line is
\* displayed.
WsWake ==
  /\ pc = "run"
  /\ lpc = "sleep"
  /\ WakeStep

\* handle_client up to its await: the connection is added to the set.
\* Connections are numbered in the order in which they are accepted.
HandleClientStart(c) ==
  /\ pc = "run"
  /\ Suspended
  /\ conn[c] = "none"
  /\ \A d \in Clients : d < c => conn[d] # "none"
  /\ connected_clients' = AfterAdd(connected_clients, c)
  /\ conn' = [conn EXCEPT ![c] = "handling"]
  /\ adds' = [adds EXCEPT ![c] = @ + 1]
  /\ UNCHANGED <<progVars, devVars, loopVars, sendVars, removes, removeErr>>

\* The connection closes: from now on a send on it raises, and wait_closed
\* is ready to return.
ConnectionClosed(c) ==
  /\ pc = "run"
  /\ Suspended
  /\ conn[c] = "handling"
  /\ conn' = [conn EXCEPT ![c] = "closed"]
  /\ UNCHANGED <<progVars, devVars, loopVars, sendVars, connected_clients, adds,
                 removes, removeErr>>

\* The finally clause of handle_client: the connection is removed from the
\* set (set.remove raises KeyError for a missing element).
RemoveClient(c) ==
  /\ removeErr' = (removeErr \/ c \notin connected_clients)
  /\ connected_clients' = AfterRemove(connected_clients, c)
  /\ removes' = [removes EXCEPT ![c] = @ + 1]
  /\ conn' = [conn EXCEPT ![c] = "done"]

\* handle_client after its await: wait_closed has returned.
HandleClientEnd(c) ==
  /\ pc = "run"
  /\ Suspended
  /\ conn[c] = "closed"
  /\ RemoveClient(c)
  /\ UNCHANGED <<progVars, devVars, loopVars, sendVars, adds>>

\* client.send(message) completes: the message is delivered.
SendComplete(s) ==
  /\ pc = "run"
  /\ Suspended
  /\ s \in sends
  /\ conn[s.to] = "handling"
  /\ sends' = sends \ {s}
  /\ lastDelivered' = [lastDelivered EXCEPT ![s.to] = s.tick]
  /\ UNCHANGED <<progVars, devVars, loopVars, message, gathered, snapshot,
                 failed, clientVars>>

\* client.send(message) raises ConnectionClosed: gather keeps the exception
\* as that send's result, or (without return_exceptions) raises it.
SendFail(s) ==
  /\ pc = "run"
  /\ Suspended
  /\ s \in sends
  /\ conn[s.to] \in {"closed", "done"}
  /\ IF ReturnExceptions
     THEN /\ sends' = sends \ {s}
          /\ failed' = failed \cup {s.to}
          /\ UNCHANGED <<pc, exc, loopVars, message, gathered, snapshot,
                         lastDelivered>>
     ELSE Raise
  /\ UNCHANGED <<mode, fps, interrupts, intrOpen, devVars, clientVars>>

\* asyncio.run ends: a handler still waiting is cancelled, and its finally
\* clause runs.
ShutdownHandler(c) ==
  /\ pc = "shutdown"
  /\ conn[c] \in {"handling", "closed"}
  /\ RemoveClient(c)
  /\ UNCHANGED <<progVars, devVars, loopVars, sendVars, adds>>

\* asyncio.run raises what ended it, once no handler is left.
ShutdownDone ==
  /\ pc = "shutdown"
  /\ \A c \in Clients : conn[c] \notin {"handling", "closed"}
  /\ pc' = IF exc = "kbd" THEN "except" ELSE "finally"
  /\ UNCHANGED <<mode, fps, exc, interrupts, intrOpen, devVars, loopVars,
                 sendVars, clientVars>>

\* except KeyboardInterrupt: the shutdown line is printed.
Except ==
  /\ pc = "except"
  /\ pc' = "finally"
  /\ UNCHANGED <<mode, fps, exc, interrupts, intrOpen, devVars, loopVars,
                 sendVars, clientVars>>

\* finally: the device is disconnected, and the program ends.
Finally ==
  /\ pc = "finally"
  /\ Disconnect
  /\ pc' = "exited"
  /\ UNCHANGED <<mode, fps, exc, interrupts, intrOpen, connectCalls, misuse,
                 loopVars, sendVars, clientVars>>

\* Where a KeyboardInterrupt raised at position p takes the program: inside a
\* try statement to its handler (from the handler to the finally clause),
\* inside asyncio.run to its cleanup, anywhere else out of the program.
AfterInterrupt(p) ==
  IF mode = "test" /\ p = "loop" THEN "except"
  ELSE IF mode = "websocket" /\ p = "run" THEN "shutdown"
  ELSE IF p = "shutdown" THEN "except"
  ELSE IF p = "except" THEN "finally"
  ELSE "exited"

\* Ctrl+C: a KeyboardInterrupt is raised wherever the program is.
Interrupt ==
  /\ pc # "exited"
  /\ interrupts < MaxInterrupts
  /\ interrupts' = interrupts + 1
  /\ intrOpen' = (intrOpen \/ devState = "open")
  /\ exc' = "kbd"
  /\ pc' = AfterInterrupt(pc)
  /\ ExitLoop
  /\ UNCHANGED <<mode, fps, devVars, clientVars>>

Next ==
  \/ Connect
  \/ Calibrate
  \/ CalibrateDisconnect
  \/ EnterLoop
  \/ EnterRun
  \/ Tick
  \/ TestPoll
  \/ TestTiming
  \/ TestWake
  \/ WsPoll
  \/ WsBroadcast
  \/ WsGatherDone
  \/ WsWake
  \/ \E c \in Clients : HandleClientStart(c)
  \/ \E c \in Clients : ConnectionClosed(c)
  \/ \E c \in Clients : HandleClientEnd(c)
  \/ \E s \in sends : SendComplete(s)
  \/ \E s \in sends : SendFail(s)
  \/ \E c \in Clients : ShutdownHandler(c)
  \/ ShutdownDone
  \/ Except
  \/ Finally
  \/ Interrupt

Spec == Init /\ [][Next]_vars

(* ------------------- the message format, on its own -------------------- *)

\* The formatting of one iteration of broadcast_actions, over every pose of
\* the arm and every clock reading: the device is read once, then the
\* message is built.
InitFmt ==
  /\ mode = "websocket"
  /\ fps = 1
  /\ pc = "fmt"
  /\ exc = "none"
  /\ interrupts = 0
  /\ intrOpen = FALSE
  /\ devState = "open"
  /\ connectCalls = 1
  /\ disconnectCalls = 0
  /\ misuse = FALSE
  /\ LoopOff(lpc, tick, reads, now, loop_start, gap, action, dt_s, sleep_time,
             message, gathered, snapshot, sends, failed, lastDelivered)
  /\ connected_clients = {}
  /\ conn = [c \in Clients |-> "none"]
  /\ adds = [c \in Clients |-> 0]
  /\ removes = [c \in Clients |-> 0]
  /\ removeErr = FALSE

\* action = teleop_device.get_action(), at some clock reading.
FmtGetAction ==
  /\ pc = "fmt"
  /\ action = NoAction
  /\ action' \in {DeviceAction(p) : p \in AllPoses}
  /\ now' \in 0 .. MaxNow
  /\ UNCHANGED <<progVars, devVars, lpc, tick, reads, loop_start, gap, dt_s,
                 sleep_time, sendVars, clientVars>>

\* message = json.dumps(action_data)
FmtDumps ==
  /\ pc = "fmt"
  /\ action # NoAction
  /\ message' = Dumps(ActionData(action, now))
  /\ UNCHANGED <<progVars, devVars, loopVars, gathered, snapshot, sends, failed,
                 lastDelivered, clientVars>>

NextFmt ==
  \/ FmtGetAction
  \/ FmtDumps

SpecFmt == InitFmt /\ [][NextFmt]_vars

(* ------------------------------ properties ----------------------------- *)

\* C1: in every mode, a KeyboardInterrupt delivered once the device
\* connection is open leads to a shutdown in which disconnect is called
\* before the program ends.
C1_InterruptReleasesDevice ==
  (pc = "exited" /\ intrOpen) => disconnectCalls >= 1

\* C2: the device is connected exactly once, before any calibrate or
\* get_action call, and disconnected exactly once at shutdown; no device
\* operation happens on a device that is not open, and disconnect is never
\* called twice.
C2_OpenedOnceReleasedOnce ==
  /\ ~misuse
  /\ connectCalls <= 1
  /\ disconnectCalls <= connectCalls
  /\ (pc \notin {"start", "exited"}) => connectCalls = 1 /\ disconnectCalls = 0
  /\ (pc = "exited" /\ connectCalls = 1) => disconnectCalls = 1

\* C3: when the broadcast step finds connected_clients non-empty, it issues
\* one send per client that is in the set at that moment, exactly once per
\* client, all with the same message, which encodes the action read in this
\* same iteration.
C3_OneSendPerClientSameMessage ==
  lpc = "gather" =>
    /\ snapshot # {}
    /\ Len(gathered) = Cardinality(snapshot)
    /\ {gathered[i].to : i \in DOMAIN gathered} = snapshot
    /\ \A i \in DOMAIN gathered :
         gathered[i].msg = message /\ gathered[i].tick = tick
    /\ message = Dumps(ActionData(action, message[1][2]))
    /\ message[1][2] >= loop_start

C3_Witness ==
  /\ lpc = "gather"
  /\ Cardinality(snapshot) >= 2
  /\ tick >= 2
  /\ sends # {}

\* The motor name with its ".pos" suffix taken off, otherwise unchanged.
WithoutPosSuffix(name) ==
  IF Len(name) >= Len(DotPos)
     /\ SubSeq(name, Len(name) - Len(DotPos) + 1, Len(name)) = DotPos
  THEN SubSeq(name, 1, Len(name) - Len(DotPos))
  ELSE name

\* The value of the member of a JSON object with the given key.
Member(obj, key) == obj[CHOOSE i \in DOMAIN obj : obj[i][1] = key][2]

\* C4: a broadcast message is a JSON object with exactly the two keys
\* "timestamp" and "actions"; "actions" has one entry per motor of the
\* action, keyed by the motor name without its ".pos" suffix and holding
\* that motor's angle.
C4_MessageFormat ==
  message # NoMessage =>
    /\ Len(message) = 2
    /\ {message[i][1] : i \in DOMAIN message} = {"timestamp", "actions"}
    /\ Member(message, "timestamp") = now
    /\ LET acts == Member(message, "actions")
       IN  /\ Len(acts) = Len(action)
           /\ \A j, k \in DOMAIN acts : acts[j][1] = acts[k][1] => j = k
           /\ \A j \in DOMAIN action :
                \E k \in DOMAIN acts :
                  /\ acts[k][1] = WithoutPosSuffix(action[j][1])
                  /\ acts[k][2] = action[j][2]

C4_Witness ==
  /\ message # NoMessage
  /\ Len(action) = 6
  /\ \E j, k \in DOMAIN action : action[j][2] # action[k][2]

\* C5: a subscriber whose send has not completed never delays the next
\* polling tick nor the later messages of the other subscribers: the loop is
\* never still waiting in its gather, more than a frame period after the
\* sends were started, for the send to an open connection, while another
\* subscriber has received this tick's message and gets no newer one.
C5_NoBackpressure ==
  ~ /\ pc = "run"
    /\ lpc = "gather"
    /\ fps > 0
    /\ now - Member(message, "timestamp") > Period(fps)
    /\ \E s \in sends : conn[s.to] = "handling"
    /\ \E d \in snapshot : conn[d] = "handling" /\ lastDelivered[d] = tick

\* C6: in both polling loops the sleep of an iteration is
\* max(0, 1/fps - elapsed): never negative, none when elapsed >= 1/fps; the
\* device is read exactly once per iteration, and two consecutive iterations
\* start at least 1/fps apart.
C6_FrameRate ==
  /\ sleep_time >= 0
  /\ lpc = "sleep" =>
       /\ fps > 0
       /\ dt_s < Period(fps)
       /\ sleep_time = Period(fps) - dt_s
  /\ (lpc = "poll" /\ tick > 0) =>
       /\ fps > 0
       /\ sleep_time = 0 <=> dt_s >= Period(fps)
       /\ sleep_time > 0 => sleep_time = Period(fps) - dt_s
       /\ now - loop_start >= Period(fps)
  /\ reads = IF lpc \in {"polled", "gather", "sleep"} THEN 1 ELSE 0
  /\ gap # -1 => gap >= Period(fps)

C6_Witness ==
  /\ mode = "websocket"
  /\ lpc = "polled"
  /\ tick >= 3
  /\ gap > Period(fps)
  /\ connected_clients # {}

\* C7: a send that fails for one client does not end the broadcast loop,
\* leaves the other sends of the tick alone, is not retried and does not
\* take the client out of connected_clients.
C7_SendFailureIsolated ==
  [][(/\ pc = "run"
      /\ interrupts' = interrupts
      /\ \E s \in sends : s \notin sends' /\ conn[s.to] # "handling")
     => (/\ pc' = "run"
         /\ lpc' = "gather"
         /\ exc' = exc
         /\ tick' = tick
         /\ connected_clients' = connected_clients
         /\ gathered' = gathered
         /\ \E s \in sends :
              /\ conn[s.to] # "handling"
              /\ sends' = sends \ {s}
              /\ failed' = failed \cup {s.to})]_vars

C7_Witness ==
  /\ pc = "run"
  /\ lpc = "polled"
  /\ tick >= 2
  /\ \E c \in failed : c \in connected_clients
  /\ \E d \in Clients \ failed : lastDelivered[d] = tick - 1

\* C8: connected_clients is exactly the set of connections whose handler has
\* started and has not come back from wait_closed; every connection is added
\* once and removed once, remove never misses, and with every client closed
\* the set is empty.
C8_ClientSetExact ==
  /\ connected_clients = {c \in Clients : conn[c] \in {"handling", "closed"}}
  /\ \A c \in Clients :
       /\ adds[c] = IF conn[c] = "none" THEN 0 ELSE 1
       /\ removes[c] = IF conn[c] = "done" THEN 1 ELSE 0
  /\ ~removeErr
  /\ (\A c \in Clients : conn[c] \in {"none", "done"}) => connected_clients = {}

C8_Witness ==
  /\ \A c \in Clients : conn[c] = "done"
  /\ exc = "kbd"

\* C9: connected_clients changes only while the broadcast task is suspended
\* in its gather or its sleep (or after the loop has ended), never in the
\* stretch that builds the sends; the sends of a tick go to the set as it was
\* when they were built, whatever connects or closes afterwards.
C9_SetStableWhileBuilding ==
  /\ [][connected_clients' # connected_clients
        => \/ pc = "run" /\ lpc \in {"gather", "sleep"}
           \/ pc = "shutdown"]_vars
  /\ [](lpc = "gather" =>
          /\ \A i \in DOMAIN gathered : gathered[i].to \in snapshot
          /\ \A s \in sends : s.to \in snapshot)

C9_Witness ==
  /\ lpc = "gather"
  /\ sends # {}
  /\ connected_clients \ snapshot # {}
  /\ snapshot \ connected_clients # {}

\* C10: every client is sent the messages in increasing tick order, at most
\* one per tick: the sends of a tick are started only when those of the tick
\* before have completed or failed, so no client has two sends in flight.
C10_OrderedOnePerTick ==
  /\ \A s \in sends :
       /\ s.tick = tick
       /\ lpc = "gather"
       /\ lastDelivered[s.to] < s.tick
  /\ \A c \in Clients :
       /\ Cardinality({s \in sends : s.to = c}) <= 1
       /\ lastDelivered[c] <= tick

C10_Witness ==
  \E s \in sends : s.tick >= 2 /\ lastDelivered[s.to] = s.tick - 1

====
